---- MODULE Spec2Model ----
(***************************************************************************)
(* Discovery and property-watch engine of package ble.                     *)
(*                                                                         *)
(* Processes: a cache-scope Discover call (which runs the adapter-scope    *)
(* Discover), WatchProperties calls, the bus connection's dispatcher, and  *)
(* the environment (remote daemon emitting signals, the clock, the caller  *)
(* cancelling a watch).                                                    *)
(*                                                                         *)
(* A method call on the bus is two steps: the caller issues the request    *)
(* (the remote end applies it, or fails it, and queues the reply on the    *)
(* connection), and the dispatcher later hands the reply to the caller.    *)
(* Replies and signals share one incoming stream, read in order by the     *)
(* dispatcher.                                                             *)
(***************************************************************************)
EXTENDS Integers, Sequences, FiniteSets, TLC

\* ------------------------------------------------------------------ bounds
MaxSignals == 2
MaxTime == 1
MaxTimeout == 1
MaxLen == 2

\* ------------------------------------------------------- program constants
WatchCap == 10
deviceInterface == "org.bluez.Device1"
interfacesAdded == "org.freedesktop.DBus.ObjectManager.InterfacesAdded"

\* ---------------------------------------------------------------- universe
DiscIds == {"d1", "d2"}
WatchIds == {"w1", "w2"}
Procs == DiscIds \cup WatchIds

AdapterPath == "/org/bluez/hci0"
Devices == {"/dev1", "/dev2"}
Objects == {AdapterPath} \cup Devices

\* the object a watcher is called on: device.Path()
Path(w) == IF w = "w1" THEN "/dev1" ELSE "/dev2"

\* device.properties["UUIDs"] of the remote objects
UUIDs(dev) == IF dev = "/dev1" THEN <<"180d">> ELSE <<"180f">>

VARIABLES
    pc,          \* [Procs -> position of the call]
    reply,       \* [Procs -> "none" | "ok" | "err"]: reply of the pending bus call
    trace,       \* [Procs -> Seq([op, ok])]: bus and channel operations executed
    rules,       \* [rule -> number of copies installed at the daemon]
    discovering, \* the adapter's discovery state
    inq,         \* the connection's incoming stream: replies and signals, in order
    cur,         \* the signal the dispatcher is delivering (it holds the signal lock)
    todo,        \* taps the dispatcher still has to deliver cur to
    taps,        \* channels registered with bus.Signal, in registration order
    chan,        \* [WatchIds -> Seq(signal)]: buffered channel of a watcher
    closed,      \* channels closed
    emitted,     \* signals emitted so far
    budget,      \* signals the daemon emits in the run
    now,         \* clock
    deadline,    \* [DiscIds -> -1 (nil timer channel) | time the timer fires]
    timeout,     \* [DiscIds -> argument of Discover]
    uuids,       \* [DiscIds -> argument of Discover]
    derr,        \* [DiscIds -> result of adapter Discover]
    dlog,        \* [DiscIds -> Seq(line logged by the wait loop)]
    cres,        \* [DiscIds -> result of cache Discover: [dev, err]]
    cache,       \* object paths in the ObjectCache
    remote,      \* object paths the daemon exports
    cancelled,   \* [WatchIds -> BOOLEAN]: ctx.Done() is closed
    hlog,        \* [WatchIds -> Seq(handler invocation)]
    werr,        \* [WatchIds -> result of WatchProperties]
    fnArgs,      \* arguments of a uuidsInclude call
    fnResult     \* its result

vars == <<pc, reply, trace, rules, discovering, inq, cur, todo, taps, chan, closed,
          emitted, budget, now, deadline, timeout, uuids, derr, cres, cache, remote,
          cancelled, hlog, werr, dlog, fnArgs, fnResult>>

busVars == <<rules, discovering, remote>>
dispVars == <<cur, todo, taps, chan, closed>>
envVars == <<emitted, budget>>
discVars == <<deadline, timeout, uuids, derr, cres, cache, dlog>>
watchVars == <<cancelled, hlog, werr, fnArgs, fnResult>>

\* ------------------------------------------------------------------- rules
\* rule string of Discover
DiscoverRule ==
    [interface |-> "org.freedesktop.DBus.ObjectManager", member |-> "InterfacesAdded",
     path |-> ""]

\* rule string of WatchProperties on object path p
WatchRule(p) ==
    [interface |-> "org.freedesktop.DBus.Properties", member |-> "PropertiesChanged",
     path |-> p]

Rules == {DiscoverRule} \cup {WatchRule(Path(w)) : w \in WatchIds}

RuleOf(p) == IF p \in DiscIds THEN DiscoverRule ELSE WatchRule(Path(p))

\* ----------------------------------------------------------------- signals
NoSig == [iface |-> "", member |-> "", path |-> "", shape |-> "none", keys |-> {}]

\* InterfacesAdded(object, interfaces): Body[1] is a{sa{sv}}
IASignal(obj, ifaces, shape) ==
    [iface |-> "org.freedesktop.DBus.ObjectManager", member |-> "InterfacesAdded",
     path |-> obj, shape |-> shape, keys |-> ifaces]

\* PropertiesChanged(interface, changed, invalidated): Body[1] is a{sv}
PCSignal(obj, props, shape) ==
    [iface |-> "org.freedesktop.DBus.Properties", member |-> "PropertiesChanged",
     path |-> obj, shape |-> shape, keys |-> props]

\* NameAcquired(name), sent by the daemon to the connection itself
NameAcquired ==
    [iface |-> "org.freedesktop.DBus", member |-> "NameAcquired",
     path |-> "/org/freedesktop/DBus", shape |-> "s", keys |-> {}]

\* announcements: of a device, of an object that is no device, and one whose
\* body does not decode
Announcements ==
    {IASignal(d, {deviceInterface}, "a{sa{sv}}") : d \in Devices}
    \cup {IASignal("/svc", {"org.bluez.GattService1"}, "a{sa{sv}}"),
          IASignal("/dev1", {deviceInterface}, "malformed")}

\* property changes of the devices, some with a body that does not decode
Changes ==
    {PCSignal(d, {"Connected"}, "a{sv}") : d \in Devices}
    \cup {PCSignal(d, {"Connected"}, "malformed") : d \in Devices}

Signals == Announcements \cup Changes \cup {NameAcquired}

\* len(s.Body)
BodyLen(s) == IF s.shape = "s" THEN 1 ELSE 2

\* s.Name
Name(s) == s.iface \o "." \o s.member

\* the daemon forwards a broadcast signal to a connection with a matching rule;
\* its own signals to the connection need none
Matches(r, s) ==
    /\ r.interface = s.iface
    /\ r.member = s.member
    /\ r.path = "" \/ r.path = s.path

Admitted(s) ==
    \/ s.iface = "org.freedesktop.DBus"
    \/ \E r \in Rules : rules[r] > 0 /\ Matches(r, s)

\* dbus.Store(s.Body[1:2], &dest) succeeds for a body of dest's shape
StoreOk(s, shape) == s.shape = shape

\* --------------------------------------------------------- pure functions
ValidUUIDs == {"180d", "180D", "180f"}

ValidUUID(u) == u \in ValidUUIDs

\* mutant: the comparison ignores case
stringArrayContains_FoldCase(a, str) ==
    LET Fold(s) == IF s = "180D" THEN "180d" ELSE s
    IN \E i \in 1..Len(a) : Fold(a[i]) = Fold(str)

stringArrayContains(a, str) == \E i \in 1..Len(a) : a[i] = str

RECURSIVE uuidsInclude(_, _)
uuidsInclude(advertised, us) ==
    IF us = <<>> THEN TRUE
    ELSE IF ~ValidUUID(Head(us)) THEN FALSE
    ELSE IF ~stringArrayContains(advertised, Head(us)) THEN FALSE
    ELSE uuidsInclude(advertised, Tail(us))

\* mutant: the result of dbus.Store is not looked at
containsDevice_IgnoreStoreError(s) == deviceInterface \in s.keys

containsDevice(s) ==
    IF ~StoreOk(s, "a{sa{sv}}") THEN FALSE ELSE deviceInterface \in s.keys

\* mutant: the scan takes any device
matchDevice_AnyDevice(snapshot, us) == snapshot \cap Devices

\* conn.findObject(deviceInterface, matching): the devices of the snapshot that
\* satisfy the predicate (the scan returns one of them, or not-found)
matchDevice(snapshot, us) ==
    {d \in snapshot \cap Devices : uuidsInclude(UUIDs(d), us)}

NoDev == "none"

\* mutant: the lookup never finds a device
GetDevice_Miss(snapshot, us) == {[dev |-> NoDev, err |-> "notfound"]}

GetDevice(snapshot, us) ==
    IF matchDevice(snapshot, us) = {}
    THEN {[dev |-> NoDev, err |-> "notfound"]}
    ELSE {[dev |-> d, err |-> "nil"] : d \in matchDevice(snapshot, us)}

\* ----------------------------------------------------------------- helpers
Remove(seq, x) == SelectSeq(seq, LAMBDA y : y /= x)

Count(p, op) == Len(SelectSeq(trace[p], LAMBDA e : e.op = op))

CountOk(p, op) == Len(SelectSeq(trace[p], LAMBDA e : e.op = op /\ e.ok))

Locked == cur /= NoSig

\* operations executed locally on the connection (no bus call)
Exec(p, ops) ==
    trace' = [trace EXCEPT ![p] = @ \o [i \in 1..Len(ops) |-> [op |-> ops[i], ok |-> TRUE]]]

NoReply == [st |-> "none", objs |-> {}]

\* a bus call: after the local operations pre, the request is applied (or
\* failed) by the remote end, which queues the reply on the connection
Issue(p, pre, op, ok, objs) ==
    /\ trace' = [trace EXCEPT ![p] =
                    @ \o [i \in 1..Len(pre) |-> [op |-> pre[i], ok |-> TRUE]]
                      \o <<[op |-> op, ok |-> ok]>>]
    /\ inq' = Append(inq, [type |-> "reply", to |-> p, ok |-> ok, objs |-> objs,
                           sig |-> NoSig])
    /\ reply' = [reply EXCEPT ![p] = NoReply]

addMatch(p, pre, ok) ==
    /\ Issue(p, pre, "AddMatch", ok, {})
    /\ rules' = IF ok THEN [rules EXCEPT ![RuleOf(p)] = @ + 1] ELSE rules

removeMatch(p, ok) ==
    /\ Issue(p, <<>>, "RemoveMatch", ok, {})
    /\ rules' = IF ok /\ rules[RuleOf(p)] > 0
                THEN [rules EXCEPT ![RuleOf(p)] = @ - 1] ELSE rules

SetDiscoveryFilter(p, ok) == Issue(p, <<>>, "SetDiscoveryFilter", ok, {})

StartDiscovery(p, ok) ==
    /\ Issue(p, <<>>, "StartDiscovery", ok, {})
    /\ discovering' = IF ok THEN TRUE ELSE discovering

StopDiscovery(p, ok) ==
    /\ Issue(p, <<>>, "StopDiscovery", ok, {})
    /\ discovering' = IF ok THEN FALSE ELSE discovering

\* cache.Update(): re-enumerates the remote objects
Update(p, ok) == Issue(p, <<>>, "Update", ok, IF ok THEN remote ELSE {})

\* the dispatcher has handed over the reply of the pending call
Replied(p) == reply[p].st /= "none"

\* the dispatcher moves on to the next tap, releasing the lock after the last
Advance ==
    /\ todo' = Tail(todo)
    /\ cur' = IF Tail(todo) = <<>> THEN NoSig ELSE cur

\* ------------------------------------------------------------ environment
\* the daemon broadcasts a signal; an announcement of a device object comes
\* with the object
EmitSignal(s) ==
    /\ emitted < budget
    /\ Admitted(s)
    /\ emitted' = emitted + 1
    /\ budget' = budget
    /\ inq' = Append(inq, [type |-> "signal", to |-> "", ok |-> TRUE, objs |-> {},
                           sig |-> s])
    /\ remote' = IF containsDevice(s) THEN remote \cup {s.path} ELSE remote
    /\ UNCHANGED <<pc, reply, trace, rules, discovering, dispVars, now, discVars,
                   watchVars>>

Tick ==
    /\ now < MaxTime
    /\ \E d \in DiscIds : pc[d] = "loop"
    /\ now' = now + 1
    /\ UNCHANGED <<pc, reply, trace, busVars, inq, dispVars, envVars, discVars,
                   watchVars>>

\* the caller of WatchProperties cancels its context
Cancel(w) ==
    /\ pc[w] /= "off"
    /\ ~cancelled[w]
    /\ cancelled' = [cancelled EXCEPT ![w] = TRUE]
    /\ UNCHANGED <<pc, reply, trace, busVars, inq, dispVars, envVars, now, discVars,
                   hlog, werr, fnArgs, fnResult>>

\* ------------------------------------------------------------- dispatcher
Dispatch_Reply ==
    /\ ~Locked
    /\ inq /= <<>>
    /\ Head(inq).type = "reply"
    /\ reply' = [reply EXCEPT ![Head(inq).to] =
                    [st |-> IF Head(inq).ok THEN "ok" ELSE "err", objs |-> Head(inq).objs]]
    /\ inq' = Tail(inq)
    /\ UNCHANGED <<pc, trace, busVars, dispVars, envVars, now, discVars, watchVars>>

Dispatch_Signal ==
    /\ ~Locked
    /\ inq /= <<>>
    /\ Head(inq).type = "signal"
    /\ inq' = Tail(inq)
    /\ todo' = taps
    /\ cur' = IF taps = <<>> THEN NoSig ELSE Head(inq).sig
    /\ UNCHANGED <<pc, reply, trace, busVars, taps, chan, closed, envVars, now,
                   discVars, watchVars>>

\* ch <- signal on a watcher's buffered channel
Dispatch_Send(w) ==
    /\ Locked
    /\ Head(todo) = w
    /\ Len(chan[w]) < WatchCap
    /\ chan' = [chan EXCEPT ![w] = Append(@, cur)]
    /\ Advance
    /\ UNCHANGED <<pc, reply, trace, busVars, inq, taps, closed, envVars, now,
                   discVars, watchVars>>

\* -------------------------------------------------- (*ObjectCache).Discover
\* lookup in the cache; without a match resolve the adapter and run its Discover
Cache_Discover(d) ==
    /\ pc[d] = "start"
    /\ \E r \in GetDevice(cache, uuids[d]) :
          IF r.err = "nil"
          THEN /\ cres' = [cres EXCEPT ![d] = r]
               /\ pc' = [pc EXCEPT ![d] = "returned"]
          ELSE IF AdapterPath \notin cache
          THEN /\ cres' = [cres EXCEPT ![d] = [dev |-> NoDev, err |-> "noadapter"]]
               /\ pc' = [pc EXCEPT ![d] = "returned"]
          ELSE /\ pc' = [pc EXCEPT ![d] = "discover"]
               /\ cres' = cres
    /\ UNCHANGED <<reply, trace, busVars, inq, dispVars, envVars, now, deadline, timeout,
                   uuids, derr, cache, dlog, watchVars>>

\* mutant: the cache is refreshed whatever adapter.Discover returned
Cache_AfterDiscover_RefreshAnyway(d) ==
    /\ pc[d] = "dret"
    /\ \E ok \in BOOLEAN : Update(d, ok)
    /\ pc' = [pc EXCEPT ![d] = "wUpdate"]
    /\ UNCHANGED <<busVars, dispVars, envVars, now, discVars, watchVars>>

\* adapter.Discover returned: its error is returned, otherwise the cache is refreshed
Cache_AfterDiscover(d) ==
    /\ pc[d] = "dret"
    /\ IF derr[d] /= "nil"
       THEN /\ cres' = [cres EXCEPT ![d] = [dev |-> NoDev, err |-> derr[d]]]
            /\ pc' = [pc EXCEPT ![d] = "returned"]
            /\ UNCHANGED <<reply, trace, inq>>
       ELSE /\ \E ok \in BOOLEAN : Update(d, ok)
            /\ pc' = [pc EXCEPT ![d] = "wUpdate"]
            /\ cres' = cres
    /\ UNCHANGED <<busVars, dispVars, envVars, now, deadline, timeout, uuids, derr,
                   cache, dlog, watchVars>>

\* mutant: the error of cache.Update is returned to the caller
Cache_AfterUpdate_ReturnError(d) ==
    /\ pc[d] = "wUpdate"
    /\ Replied(d)
    /\ IF reply[d].st = "err"
       THEN /\ cres' = [cres EXCEPT ![d] = [dev |-> NoDev, err |-> "err:Update"]]
            /\ pc' = [pc EXCEPT ![d] = "returned"]
            /\ cache' = cache
       ELSE /\ cache' = reply[d].objs
            /\ \E r \in GetDevice(reply[d].objs, uuids[d]) :
                  cres' = [cres EXCEPT ![d] = r]
            /\ pc' = [pc EXCEPT ![d] = "returned"]
    /\ UNCHANGED <<reply, trace, busVars, inq, dispVars, envVars, now, deadline,
                   timeout, uuids, derr, dlog, watchVars>>

\* cache.Update returned: log.Fatal on error, otherwise the lookup is re-run
Cache_AfterUpdate(d) ==
    /\ pc[d] = "wUpdate"
    /\ Replied(d)
    /\ IF reply[d].st = "err"
       THEN /\ pc' = [pc EXCEPT ![d] = "fatal"]
            /\ UNCHANGED <<cache, cres>>
       ELSE /\ cache' = reply[d].objs
            /\ \E r \in GetDevice(reply[d].objs, uuids[d]) :
                  cres' = [cres EXCEPT ![d] = r]
            /\ pc' = [pc EXCEPT ![d] = "returned"]
    /\ UNCHANGED <<reply, trace, busVars, inq, dispVars, envVars, now, deadline,
                   timeout, uuids, derr, dlog, watchVars>>

\* ---------------------------------------------------------- (*blob).Discover
\* make the channel, register it, issue AddMatch
Discover_Begin(d) ==
    /\ pc[d] = "discover"
    /\ ~Locked
    /\ taps' = Append(taps, d)
    /\ \E ok \in BOOLEAN : addMatch(d, <<"Signal">>, ok)
    /\ pc' = [pc EXCEPT ![d] = "wAddMatch"]
    /\ UNCHANGED <<discovering, remote, cur, todo, chan, closed, envVars, now, discVars,
                   watchVars>>

\* mutant: removeMatch is deferred before the result of addMatch is looked at
Discover_AfterAddMatch_DeferEarly(d) ==
    /\ pc[d] = "wAddMatch"
    /\ Replied(d)
    /\ IF reply[d].st = "err"
       THEN /\ derr' = [derr EXCEPT ![d] = "err:AddMatch"]
            /\ \E ok \in BOOLEAN : removeMatch(d, ok)
            /\ pc' = [pc EXCEPT ![d] = "wRemove"]
       ELSE /\ \E ok \in BOOLEAN : SetDiscoveryFilter(d, ok)
            /\ pc' = [pc EXCEPT ![d] = "wFilter"]
            /\ UNCHANGED <<derr, rules>>
    /\ UNCHANGED <<discovering, remote, dispVars, envVars, now, deadline, timeout, uuids,
                   cres, cache, dlog, watchVars>>

Discover_AfterAddMatch(d) ==
    /\ pc[d] = "wAddMatch"
    /\ Replied(d)
    /\ IF reply[d].st = "err"
       THEN /\ derr' = [derr EXCEPT ![d] = "err:AddMatch"]
            /\ pc' = [pc EXCEPT ![d] = "detach"]
            /\ UNCHANGED <<reply, trace, inq>>
       ELSE /\ \E ok \in BOOLEAN : SetDiscoveryFilter(d, ok)
            /\ pc' = [pc EXCEPT ![d] = "wFilter"]
            /\ derr' = derr
    /\ UNCHANGED <<busVars, dispVars, envVars, now, deadline, timeout, uuids, cres,
                   cache, dlog, watchVars>>

Discover_AfterFilter(d) ==
    /\ pc[d] = "wFilter"
    /\ Replied(d)
    /\ IF reply[d].st = "err"
       THEN /\ derr' = [derr EXCEPT ![d] = "err:SetDiscoveryFilter"]
            /\ \E ok \in BOOLEAN : removeMatch(d, ok)
            /\ pc' = [pc EXCEPT ![d] = "wRemove"]
            /\ discovering' = discovering
       ELSE /\ \E ok \in BOOLEAN : StartDiscovery(d, ok)
            /\ pc' = [pc EXCEPT ![d] = "wStart"]
            /\ UNCHANGED <<derr, rules>>
    /\ UNCHANGED <<remote, dispVars, envVars, now, deadline, timeout, uuids, cres,
                   cache, dlog, watchVars>>

\* mutant: the timer is armed whatever the timeout
Arm_Always(d) == now + timeout[d]

\* time.After(timeout), armed only for a timeout other than 0
Arm(d) == IF timeout[d] /= 0 THEN now + timeout[d] ELSE -1

\* mutant: StopDiscovery is deferred before the result of StartDiscovery is
\* looked at
Discover_AfterStart_DeferEarly(d) ==
    /\ pc[d] = "wStart"
    /\ Replied(d)
    /\ IF reply[d].st = "err"
       THEN /\ derr' = [derr EXCEPT ![d] = "err:StartDiscovery"]
            /\ \E ok \in BOOLEAN : StopDiscovery(d, ok)
            /\ pc' = [pc EXCEPT ![d] = "wStop"]
            /\ deadline' = deadline
       ELSE /\ deadline' = [deadline EXCEPT ![d] = Arm(d)]
            /\ pc' = [pc EXCEPT ![d] = "loop"]
            /\ UNCHANGED <<derr, discovering, reply, trace, inq>>
    /\ UNCHANGED <<rules, remote, dispVars, envVars, now, timeout, uuids, cres,
                   cache, dlog, watchVars>>

Discover_AfterStart(d) ==
    /\ pc[d] = "wStart"
    /\ Replied(d)
    /\ IF reply[d].st = "err"
       THEN /\ derr' = [derr EXCEPT ![d] = "err:StartDiscovery"]
            /\ \E ok \in BOOLEAN : removeMatch(d, ok)
            /\ pc' = [pc EXCEPT ![d] = "wRemove"]
            /\ deadline' = deadline
       ELSE /\ deadline' = [deadline EXCEPT ![d] = Arm(d)]
            /\ pc' = [pc EXCEPT ![d] = "loop"]
            /\ UNCHANGED <<derr, rules, reply, trace, inq>>
    /\ UNCHANGED <<discovering, remote, dispVars, envVars, now, timeout, uuids, cres,
                   cache, dlog, watchVars>>

\* the signal ends the wait loop
Qualifies(s) == Name(s) = interfacesAdded /\ containsDevice(s)

\* the line the loop logs for a signal
LogLine(s) ==
    IF Name(s) /= interfacesAdded THEN "unexpected signal"
    ELSE IF containsDevice(s) THEN "discovery finished"
    ELSE "skipping signal"

\* mutant: a signal that does not end the loop restarts the timer
Rearm_Restart(d) == IF deadline[d] >= 0 THEN now + timeout[d] ELSE deadline[d]

\* the deadline after a signal that does not end the loop
Rearm(d) == deadline[d]

\* case s := <-signals (the channel is unbuffered: the dispatcher's send and
\* this receive are one step)
Discover_Recv(d) ==
    /\ pc[d] = "loop"
    /\ Locked
    /\ Head(todo) = d
    /\ Advance
    /\ dlog' = [dlog EXCEPT ![d] = Append(@, LogLine(cur))]
    /\ IF Qualifies(cur)
       THEN /\ derr' = [derr EXCEPT ![d] = "nil"]
            /\ \E ok \in BOOLEAN : StopDiscovery(d, ok)
            /\ pc' = [pc EXCEPT ![d] = "wStop"]
            /\ deadline' = deadline
       ELSE /\ deadline' = [deadline EXCEPT ![d] = Rearm(d)]
            /\ UNCHANGED <<pc, derr, discovering, reply, trace, inq>>
    /\ UNCHANGED <<rules, remote, taps, chan, closed, envVars, now, timeout, uuids,
                   cres, cache, watchVars>>

\* the timer channel is ready
Expired(d) == deadline[d] >= 0 /\ now >= deadline[d]

\* case <-t
Discover_Timeout(d) ==
    /\ pc[d] = "loop"
    /\ Expired(d)
    /\ derr' = [derr EXCEPT ![d] = "timeout"]
    /\ \E ok \in BOOLEAN : StopDiscovery(d, ok)
    /\ pc' = [pc EXCEPT ![d] = "wStop"]
    /\ UNCHANGED <<rules, remote, dispVars, envVars, now, deadline, timeout, uuids,
                   cres, cache, watchVars>>
    /\ dlog' = dlog

\* mutant: the rule is left installed after the wait loop
Discover_AfterStop_KeepRule(d) ==
    /\ pc[d] = "wStop"
    /\ Replied(d)
    /\ pc' = [pc EXCEPT ![d] = "detach"]
    /\ UNCHANGED <<reply, trace, busVars, inq, dispVars, envVars, now, discVars,
                   watchVars>>

\* deferred: StopDiscovery returned (result dropped), removeMatch
Discover_AfterStop(d) ==
    /\ pc[d] = "wStop"
    /\ Replied(d)
    /\ \E ok \in BOOLEAN : removeMatch(d, ok)
    /\ pc' = [pc EXCEPT ![d] = "wRemove"]
    /\ UNCHANGED <<discovering, remote, dispVars, envVars, now, discVars, watchVars>>

\* deferred: removeMatch returned (result dropped)
Discover_AfterRemove(d) ==
    /\ pc[d] = "wRemove"
    /\ Replied(d)
    /\ pc' = [pc EXCEPT ![d] = "detach"]
    /\ UNCHANGED <<reply, trace, busVars, inq, dispVars, envVars, now, discVars,
                   watchVars>>

\* deferred: bus.RemoveSignal(signals), close(signals); Discover returns
Discover_Detach(d) ==
    /\ pc[d] = "detach"
    /\ ~Locked
    /\ taps' = Remove(taps, d)
    /\ closed' = closed \cup {d}
    /\ Exec(d, <<"RemoveSignal", "close">>)
    /\ pc' = [pc EXCEPT ![d] = "dret"]
    /\ UNCHANGED <<reply, busVars, inq, cur, todo, chan, envVars, now, discVars,
                   watchVars>>

\* --------------------------------------------------- (*blob).WatchProperties
Watch_Begin(w) ==
    /\ pc[w] = "start"
    /\ \E ok \in BOOLEAN : addMatch(w, <<>>, ok)
    /\ pc' = [pc EXCEPT ![w] = "wAddMatch"]
    /\ UNCHANGED <<discovering, remote, dispVars, envVars, now, discVars, watchVars>>

\* addMatch returned: its error is returned, otherwise the channel is made
\* and registered
Watch_AfterAddMatch(w) ==
    /\ pc[w] = "wAddMatch"
    /\ Replied(w)
    /\ IF reply[w].st = "err"
       THEN /\ werr' = [werr EXCEPT ![w] = "err:AddMatch"]
            /\ pc' = [pc EXCEPT ![w] = "returned"]
            /\ UNCHANGED <<taps, trace>>
       ELSE /\ ~Locked
            /\ taps' = Append(taps, w)
            /\ Exec(w, <<"Signal">>)
            /\ pc' = [pc EXCEPT ![w] = "loop"]
            /\ werr' = werr
    /\ UNCHANGED <<reply, busVars, inq, cur, todo, chan, closed, envVars, now, discVars,
                   cancelled, hlog, fnArgs, fnResult>>

\* case <-ctx.Done(): return nil; the deferred function starts with removeMatch
Watch_Done(w) ==
    /\ pc[w] = "loop"
    /\ cancelled[w]
    /\ werr' = [werr EXCEPT ![w] = "nil"]
    /\ \E ok \in BOOLEAN : removeMatch(w, ok)
    /\ pc' = [pc EXCEPT ![w] = "wRemove"]
    /\ UNCHANGED <<discovering, remote, dispVars, envVars, now, discVars, cancelled,
                   hlog, fnArgs, fnResult>>

\* the argument h is invoked with: the result of dbus.Store is dropped, and
\* changed is left nil when the body does not decode
Changed(s) ==
    [sig |-> s, isnil |-> ~StoreOk(s, "a{sv}"),
     props |-> IF StoreOk(s, "a{sv}") THEN s.keys ELSE {}]

\* the handler invocations of the watch loop for signal s
Invocations(w, s) == <<Changed(s)>>

\* mutant: the loop takes the newest signal of the channel
Watch_Recv_Newest(w) ==
    /\ pc[w] = "loop"
    /\ chan[w] /= <<>>
    /\ chan' = [chan EXCEPT ![w] = SubSeq(@, 1, Len(@) - 1)]
    /\ hlog' = [hlog EXCEPT ![w] = @ \o Invocations(w, chan[w][Len(chan[w])])]
    /\ pc' = [pc EXCEPT ![w] = "handler"]
    /\ UNCHANGED <<reply, trace, busVars, inq, cur, todo, taps, closed, envVars, now,
                   discVars, cancelled, werr, fnArgs, fnResult>>

\* case sig := <-c: decode, call h. sig.Body[1:2] of a body of one element
\* is out of range unless the slice has spare capacity
Watch_Recv(w) ==
    /\ pc[w] = "loop"
    /\ chan[w] /= <<>>
    /\ chan' = [chan EXCEPT ![w] = Tail(@)]
    /\ \E panics \in IF BodyLen(Head(chan[w])) < 2 THEN BOOLEAN ELSE {FALSE} :
          IF panics
          THEN /\ pc' = [pc EXCEPT ![w] = "panic"]
               /\ hlog' = hlog
          ELSE /\ hlog' = [hlog EXCEPT ![w] = @ \o Invocations(w, Head(chan[w]))]
               /\ pc' = [pc EXCEPT ![w] = "handler"]
    /\ UNCHANGED <<reply, trace, busVars, inq, cur, todo, taps, closed, envVars, now,
                   discVars, cancelled, werr, fnArgs, fnResult>>

\* h returns
Watch_HandlerReturn(w) ==
    /\ pc[w] = "handler"
    /\ pc' = [pc EXCEPT ![w] = "loop"]
    /\ UNCHANGED <<reply, trace, busVars, inq, dispVars, envVars, now, discVars,
                   watchVars>>

\* mutant: the channel is closed but left registered
Watch_Detach_KeepTap(w) ==
    /\ pc[w] = "wRemove"
    /\ Replied(w)
    /\ ~Locked
    /\ closed' = closed \cup {w}
    /\ Exec(w, <<"close">>)
    /\ pc' = [pc EXCEPT ![w] = "returned"]
    /\ UNCHANGED <<reply, busVars, inq, cur, todo, taps, chan, envVars, now, discVars,
                   watchVars>>

\* deferred: removeMatch returned (result dropped), RemoveSignal(c), close(c)
Watch_Detach(w) ==
    /\ pc[w] = "wRemove"
    /\ Replied(w)
    /\ ~Locked
    /\ taps' = Remove(taps, w)
    /\ closed' = closed \cup {w}
    /\ Exec(w, <<"RemoveSignal", "close">>)
    /\ pc' = [pc EXCEPT ![w] = "returned"]
    /\ UNCHANGED <<reply, busVars, inq, cur, todo, chan, envVars, now, discVars,
                   watchVars>>

\* ---------------------------------------------------------- specification
\* argument lists of the Discover call
UuidArgs == {<<"180d">>, <<>>}

\* cache contents at the call (the cache was enumerated from the daemon)
InitCaches == {{}, {AdapterPath}, {AdapterPath, "/dev1"}, {AdapterPath, "/dev2"}}

\* the calls of active are about to start; the daemon emits up to n signals
InitWith(active, n) ==
    /\ pc = [p \in Procs |-> IF p \in active THEN "start" ELSE "off"]
    /\ reply = [p \in Procs |-> NoReply]
    /\ trace = [p \in Procs |-> <<>>]
    /\ rules = [r \in Rules |-> 0]
    /\ discovering = FALSE
    /\ inq = <<>>
    /\ cur = NoSig
    /\ todo = <<>>
    /\ taps = <<>>
    /\ chan = [w \in WatchIds |-> <<>>]
    /\ closed = {}
    /\ emitted = 0
    /\ budget = n
    /\ now = 0
    /\ deadline = [d \in DiscIds |-> -1]
    /\ timeout \in [DiscIds -> 0..MaxTimeout]
    /\ uuids \in [DiscIds -> UuidArgs]
    /\ \A d \in DiscIds \ active : timeout[d] = 0 /\ uuids[d] = <<>>
    /\ derr = [d \in DiscIds |-> "none"]
    /\ cres = [d \in DiscIds |-> [dev |-> NoDev, err |-> "none"]]
    /\ cache \in InitCaches
    /\ remote = cache
    /\ cancelled = [w \in WatchIds |-> FALSE]
    /\ hlog = [w \in WatchIds |-> <<>>]
    /\ werr = [w \in WatchIds |-> "none"]
    /\ dlog = [d \in DiscIds |-> <<>>]
    /\ fnArgs = [advertised |-> <<>>, uuids |-> <<>>]
    /\ fnResult = "none"

InitFor(active) == InitWith(active, MaxSignals)

\* log.Fatal and a panic end the process
Alive == \A p \in Procs : pc[p] \notin {"fatal", "panic"}

Dispatcher ==
    \/ Dispatch_Reply
    \/ Dispatch_Signal
    \/ \E w \in WatchIds : Dispatch_Send(w)

Discover(d) ==
    \/ Cache_Discover(d)
    \/ Discover_Begin(d)
    \/ Discover_AfterAddMatch(d)
    \/ Discover_AfterFilter(d)
    \/ Discover_AfterStart(d)
    \/ Discover_Recv(d)
    \/ Discover_Timeout(d)
    \/ Discover_AfterStop(d)
    \/ Discover_AfterRemove(d)
    \/ Discover_Detach(d)
    \/ Cache_AfterDiscover(d)
    \/ Cache_AfterUpdate(d)

WatchProperties(w) ==
    \/ Cancel(w)
    \/ Watch_Begin(w)
    \/ Watch_AfterAddMatch(w)
    \/ Watch_Done(w)
    \/ Watch_Recv(w)
    \/ Watch_HandlerReturn(w)
    \/ Watch_Detach(w)

\* one Discover call, through the cache, beside one watch of /dev1; the
\* daemon announces /dev1 and changes its properties
Init ==
    /\ InitFor({"d1", "w1"})
    /\ cache = {AdapterPath}
    /\ uuids["d1"] = <<"180d">>

SignalsNear == {IASignal("/dev1", {deviceInterface}, "a{sa{sv}}"),
                PCSignal("/dev1", {"Connected"}, "a{sv}")}

Next ==
    /\ Alive
    /\ \/ \E s \in SignalsNear : EmitSignal(s)
       \/ Tick
       \/ Dispatcher
       \/ \E d \in DiscIds : Discover(d)
       \/ \E w \in WatchIds : WatchProperties(w)

Spec == Init /\ [][Next]_vars

\* one Discover call, through the cache, alone on the connection
InitDiscover == InitFor({"d1"})

NextDiscover ==
    /\ Alive
    /\ \/ \E s \in Announcements \cup {NameAcquired} : EmitSignal(s)
       \/ Tick
       \/ Dispatch_Reply
       \/ Dispatch_Signal
       \/ \E d \in DiscIds : Discover(d)

SpecDiscover == InitDiscover /\ [][NextDiscover]_vars

\* two watches, on two devices
InitWatch ==
    /\ InitFor({"w1", "w2"})
    /\ cache = {}
    /\ timeout["d1"] = 0
    /\ uuids["d1"] = <<>>

NextWatch ==
    /\ Alive
    /\ \/ \E s \in Changes : EmitSignal(s)
       \/ Dispatcher
       \/ \E w \in WatchIds : WatchProperties(w)

SpecWatch == InitWatch /\ [][NextWatch]_vars

\* property changes of /dev1
SignalsPressure ==
    {PCSignal("/dev1", {"Connected"}, "a{sv}"), PCSignal("/dev1", {"RSSI"}, "a{sv}")}

\* signals that arrived while the handler of a watch was running
Backlog == [i \in 1..(WatchCap - 1) |-> PCSignal("/dev1", {"Connected"}, "a{sv}")]

\* a watch of /dev1 whose handler is running for the first of WatchCap signals,
\* the others waiting in its channel; a second watch is about to start
\* (a state SpecFill reaches)
PressureStart ==
    /\ pc = [p \in Procs |-> IF p = "w1" THEN "handler" ELSE IF p = "w2" THEN "start"
                             ELSE "off"]
    /\ reply = [p \in Procs |-> IF p = "w1" THEN [st |-> "ok", objs |-> {}] ELSE NoReply]
    /\ trace = [p \in Procs |->
                   IF p = "w1" THEN <<[op |-> "AddMatch", ok |-> TRUE],
                                      [op |-> "Signal", ok |-> TRUE]>>
                   ELSE <<>>]
    /\ rules = [r \in Rules |-> IF r = WatchRule("/dev1") THEN 1 ELSE 0]
    /\ discovering = FALSE
    /\ inq = <<>>
    /\ cur = NoSig
    /\ todo = <<>>
    /\ taps = <<"w1">>
    /\ chan = [w \in WatchIds |-> IF w = "w1" THEN Backlog ELSE <<>>]
    /\ closed = {}
    /\ emitted = WatchCap
    /\ now = 0
    /\ deadline = [d \in DiscIds |-> -1]
    /\ timeout = [d \in DiscIds |-> 0]
    /\ uuids = [d \in DiscIds |-> <<>>]
    /\ derr = [d \in DiscIds |-> "none"]
    /\ cres = [d \in DiscIds |-> [dev |-> NoDev, err |-> "none"]]
    /\ cache = {}
    /\ remote = {}
    /\ cancelled = [w \in WatchIds |-> FALSE]
    /\ hlog = [w \in WatchIds |->
                  IF w = "w1" THEN <<Changed(PCSignal("/dev1", {"Connected"}, "a{sv}"))>>
                  ELSE <<>>]
    /\ werr = [w \in WatchIds |-> "none"]
    /\ dlog = [d \in DiscIds |-> <<>>]
    /\ fnArgs = [advertised |-> <<>>, uuids |-> <<>>]
    /\ fnResult = "none"

\* from there the daemon emits further signals
InitPressure == PressureStart /\ budget = WatchCap + MaxSignals

NextPressure ==
    /\ Alive
    /\ \/ \E s \in SignalsPressure : EmitSignal(s)
       \/ Dispatcher
       \/ \E w \in WatchIds : WatchProperties(w)

SpecPressure == InitPressure /\ [][NextPressure]_vars

\* the run of one watch that leads to the start of SpecPressure
NextFill ==
    /\ Alive
    /\ \/ EmitSignal(PCSignal("/dev1", {"Connected"}, "a{sv}"))
       \/ Dispatcher
       \/ WatchProperties("w1")

SpecFill == InitWith({"w1", "w2"}, WatchCap) /\ cache = {} /\ [][NextFill]_vars

\* two Discover calls on the adapter at the same time
InitOverlap ==
    /\ InitFor(DiscIds)
    /\ cache = {AdapterPath}
    /\ \A d \in DiscIds : uuids[d] = <<"180d">>

NextOverlap ==
    /\ Alive
    /\ \/ EmitSignal(IASignal("/dev1", {deviceInterface}, "a{sa{sv}}"))
       \/ Tick
       \/ Dispatch_Reply
       \/ Dispatch_Signal
       \/ \E d \in DiscIds : Discover(d)

SpecOverlap == InitOverlap /\ [][NextOverlap]_vars

\* calls of uuidsInclude
UuidStrings == {"180d", "180D", "180f", "xyz"}

SeqsUpTo(S, n) == UNION {[1..k -> S] : k \in 0..n}

InitUuid ==
    /\ pc = [p \in Procs |-> "off"]
    /\ reply = [p \in Procs |-> NoReply]
    /\ trace = [p \in Procs |-> <<>>]
    /\ rules = [r \in Rules |-> 0]
    /\ discovering = FALSE
    /\ inq = <<>>
    /\ cur = NoSig
    /\ todo = <<>>
    /\ taps = <<>>
    /\ chan = [w \in WatchIds |-> <<>>]
    /\ closed = {}
    /\ emitted = 0
    /\ budget = 0
    /\ now = 0
    /\ deadline = [d \in DiscIds |-> -1]
    /\ timeout = [d \in DiscIds |-> 0]
    /\ uuids = [d \in DiscIds |-> <<>>]
    /\ derr = [d \in DiscIds |-> "none"]
    /\ cres = [d \in DiscIds |-> [dev |-> NoDev, err |-> "none"]]
    /\ cache = {}
    /\ remote = {}
    /\ cancelled = [w \in WatchIds |-> FALSE]
    /\ hlog = [w \in WatchIds |-> <<>>]
    /\ werr = [w \in WatchIds |-> "none"]
    /\ dlog = [d \in DiscIds |-> <<>>]
    /\ fnArgs \in [advertised : SeqsUpTo(UuidStrings, MaxLen),
                    uuids : SeqsUpTo(UuidStrings, MaxLen)]
    /\ fnResult = "none"

Call_uuidsInclude ==
    /\ fnResult = "none"
    /\ fnResult' = IF uuidsInclude(fnArgs.advertised, fnArgs.uuids) THEN "true" ELSE "false"
    /\ UNCHANGED <<pc, reply, trace, busVars, inq, dispVars, envVars, now, discVars,
                   cancelled, hlog, werr, fnArgs>>

SpecUuid == InitUuid /\ [][Call_uuidsInclude]_vars

\* ------------------------------------------------------------------ claims
\* adapter Discover has returned to its caller
Returned(d) == pc[d] \in {"dret", "wUpdate", "returned", "fatal"} /\ derr[d] /= "none"

\* an InterfacesAdded signal whose interface-set holds the device interface
IsDeviceAnnouncement(s) ==
    /\ s.iface = "org.freedesktop.DBus.ObjectManager"
    /\ s.member = "InterfacesAdded"
    /\ s.shape = "a{sa{sv}}"
    /\ "org.bluez.Device1" \in s.keys

\* the dispatcher is handing signal cur to the channel of d
Offered(d) == Locked /\ Head(todo) = d

\* the wait loop of d takes a signal in this step
Receives(d) == pc[d] = "loop" /\ Offered(d) /\ dlog'[d] /= dlog[d]

C1_AtReturn ==
    \A d \in DiscIds :
        Returned(d) /\ CountOk(d, "StartDiscovery") = 1 =>
            /\ "discovery finished" \notin {dlog[d][i] : i \in 1..Len(dlog[d])}
                  => derr[d] = "timeout" /\ timeout[d] > 0
            /\ derr[d] = "timeout" =>
                  /\ Count(d, "StopDiscovery") = 1
                  /\ Count(d, "RemoveMatch") = 1
                  /\ CountOk(d, "RemoveMatch") = 1 => rules[DiscoverRule] = 0
                  /\ CountOk(d, "StopDiscovery") = 1 => ~discovering

C1_Step ==
    \A d \in DiscIds :
        /\ deadline[d] >= 0 => deadline'[d] = deadline[d]
        /\ deadline[d] < 0 /\ deadline'[d] >= 0 =>
              timeout[d] > 0 /\ deadline'[d] = now + timeout[d]
        /\ derr[d] /= "timeout" /\ derr'[d] = "timeout" =>
              pc[d] = "loop" /\ deadline[d] >= 0 /\ now >= deadline[d]

C2_AtReturn ==
    \A d \in DiscIds :
        Returned(d) /\ derr[d] = "nil" =>
            /\ Count(d, "StopDiscovery") = 1
            /\ Count(d, "RemoveMatch") = 1
            /\ Count(d, "RemoveSignal") = 1
            /\ Count(d, "close") = 1
            /\ d \notin {taps[i] : i \in 1..Len(taps)}

C2_Step ==
    \A d \in DiscIds :
        Receives(d) /\ IsDeviceAnnouncement(cur) => derr'[d] = "nil" /\ pc'[d] = "wStop"

\* C2: when the wait loop receives an InterfacesAdded signal holding the device
\* interface, Discover leaves the loop with result nil, and when it has
\* returned nil StopDiscovery, RemoveMatch and RemoveSignal have each been
\* executed exactly once (and the channel closed once).
C2_AnnouncementReturnsNil == [](C2_AtReturn) /\ [][C2_Step]_vars

\* nil returned before the deadline of a call with a timeout
C2_Witness ==
    /\ Returned("d1")
    /\ derr["d1"] = "nil"
    /\ timeout["d1"] > 0
    /\ now < deadline["d1"]

\* the call of p is over
Over(p) == IF p \in DiscIds THEN Returned(p) ELSE pc[p] = "returned"

C4_Always ==
    \A d \in DiscIds :
        timeout[d] = 0 => derr[d] /= "timeout" /\ deadline[d] < 0 /\ ~Expired(d)

C4_Step ==
    \A d \in DiscIds :
        timeout[d] = 0 /\ pc[d] = "loop" /\ pc'[d] /= "loop" =>
            Offered(d) /\ IsDeviceAnnouncement(cur) /\ derr'[d] = "nil"

\* C4: with timeout 0 the timer is never armed and Discover never returns the
\* timeout error; the only step that leaves the wait loop is the receipt of an
\* InterfacesAdded signal holding the device interface, whatever time has
\* passed and whatever other signals were received.
C4_NoTimeoutWaits == [](C4_Always) /\ [][C4_Step]_vars

\* still waiting at the end of the clock, after two signals that do not qualify
C4_Witness ==
    /\ timeout["d1"] = 0
    /\ pc["d1"] = "loop"
    /\ now = MaxTime
    /\ Len(dlog["d1"]) = 2

\* w is not among the registered channels
Detached(w) == w \notin {taps[i] : i \in 1..Len(taps)}

C6_UndecodableSkipped ==
    \A w \in WatchIds : \A i \in 1..Len(hlog[w]) : hlog[w][i].sig.shape = "a{sv}"

\* C7: the handler of a watch on path P is invoked only for PropertiesChanged
\* signals emitted for P.
C7_HandlerScopedToPath ==
    \A w \in WatchIds : \A i \in 1..Len(hlog[w]) :
        /\ hlog[w][i].sig.path = Path(w)
        /\ hlog[w][i].sig.iface = "org.freedesktop.DBus.Properties"
        /\ hlog[w][i].sig.member = "PropertiesChanged"

\* device dev satisfies the UUID predicate
Satisfies(dev, us) ==
    \A i \in 1..Len(us) :
        /\ ValidUUID(us[i])
        /\ us[i] \in {UUIDs(dev)[j] : j \in 1..Len(UUIDs(dev))}

Hits(d) == {dev \in cache \cap Devices : Satisfies(dev, uuids[d])}

C8_Step ==
    \A d \in DiscIds :
        pc[d] = "start" /\ pc'[d] /= "start" /\ Hits(d) /= {} =>
            /\ pc'[d] = "returned"
            /\ cres'[d].err = "nil"
            /\ cres'[d].dev \in Hits(d)
            /\ trace'[d] = <<>>
            /\ UNCHANGED <<rules, discovering, taps, inq, cache, remote>>

C8_AtReturn ==
    \A d \in DiscIds :
        pc[d] = "returned" /\ derr[d] = "none" /\ cres[d].err = "nil" =>
            trace[d] = <<>> /\ rules[DiscoverRule] = 0 /\ ~discovering

\* C8: when the cache holds a device satisfying the UUID predicate at the
\* call, cache Discover returns such a device in its first step, and has
\* executed no bus or channel operation: no AddMatch or RemoveMatch, no
\* channel registration, no SetDiscoveryFilter, StartDiscovery or
\* StopDiscovery, no Update.
C8_FastPathSilent == [](C8_AtReturn) /\ [][C8_Step]_vars

\* the fast path taken
C8_Witness ==
    /\ pc["d1"] = "returned"
    /\ cres["d1"] = [dev |-> "/dev1", err |-> "nil"]
    /\ uuids["d1"] = <<"180d">>
    /\ trace["d1"] = <<>>

\* C9: uuidsInclude(A, U) is true exactly when every element of U is a valid
\* UUID and, as the same string, an element of A; so it is true for empty U
\* and false when U holds an invalid UUID.
C9_uuidsInclude ==
    fnResult /= "none" =>
        LET A == {fnArgs.advertised[i] : i \in 1..Len(fnArgs.advertised)}
            U == {fnArgs.uuids[i] : i \in 1..Len(fnArgs.uuids)}
        IN /\ fnResult = "true" <=> \A u \in U : u \in ValidUUIDs /\ u \in A
           /\ U = {} => fnResult = "true"
           /\ (\E u \in U : u \notin ValidUUIDs) => fnResult = "false"

\* a UUID advertised in the other case is not included
C9_Witness ==
    /\ fnArgs = [advertised |-> <<"180f", "180D">>, uuids |-> <<"180f", "180d">>]
    /\ fnResult = "false"

\* C10: a device returned by cache Discover is a device of the cache as it is
\* at the return and satisfies the UUID predicate; after a refresh the result
\* is the one of the lookup in the refreshed cache: a matching device of it,
\* or not-found when it holds none.
C10_ReturnedDeviceMatches ==
    \A d \in DiscIds :
        pc[d] = "returned" =>
            /\ cres[d].err = "nil" <=> cres[d].dev /= NoDev
            /\ cres[d].err = "nil" => cres[d].dev \in Hits(d)
            /\ CountOk(d, "Update") = 1 =>
                  /\ Hits(d) = {} => cres[d].err = "notfound"
                  /\ Hits(d) /= {} => cres[d].err = "nil"

\* discovery succeeded on the announcement of a device that does not match
C10_Witness ==
    /\ pc["d1"] = "returned"
    /\ derr["d1"] = "nil"
    /\ uuids["d1"] = <<"180d">>
    /\ cache = {AdapterPath, "/dev2"}
    /\ cres["d1"].err = "notfound"

\* operations of Discover before its wait loop, and of its cleanup
SetupOps == {"AddMatch", "SetDiscoveryFilter", "StartDiscovery"}

CleanupOps == {"StopDiscovery", "RemoveMatch"}

\* positions of the requests of p that failed
Failed(p) == {i \in 1..Len(trace[p]) : ~trace[p][i].ok}

\* the request of p that failed first
FirstFailure(p) == trace[p][CHOOSE i \in Failed(p) : \A j \in Failed(p) : i <= j].op

\* the wait loop of d was entered and left without a device announcement
TimedOut(d) ==
    /\ CountOk(d, "StartDiscovery") = 1
    /\ "discovery finished" \notin {dlog[d][i] : i \in 1..Len(dlog[d])}

\* C11: when Discover has returned, a failed AddMatch, SetDiscoveryFilter or
\* StartDiscovery is the error returned; a failed StopDiscovery or RemoveMatch
\* is the error returned when it is the first failure of the call and the wait
\* loop did not time out, and never replaces the timeout error; without any
\* failure the result is nil or the timeout error.
C11_ErrorPropagation ==
    \A d \in DiscIds :
        Returned(d) =>
            IF Failed(d) = {} THEN derr[d] = IF TimedOut(d) THEN "timeout" ELSE "nil"
            ELSE IF FirstFailure(d) \in SetupOps THEN derr[d] = "err:" \o FirstFailure(d)
            ELSE IF TimedOut(d) THEN derr[d] = "timeout"
            ELSE derr[d] = "err:" \o FirstFailure(d)

\* the operations Discover has executed, in order
Ops(d) == [i \in 1..Len(trace[d]) |-> trace[d][i].op]

\* the request op of d succeeded
Succeeded(d, op) == CountOk(d, op) = 1

\* the operations of a Discover call that has returned: each setup step up to
\* the first that failed, then the cleanup of the steps that succeeded, last
\* set up first undone, the channel detached and then closed
Expected(d) ==
    <<"Signal", "AddMatch">>
    \o (IF Succeeded(d, "AddMatch") THEN <<"SetDiscoveryFilter">> ELSE <<>>)
    \o (IF Succeeded(d, "SetDiscoveryFilter") THEN <<"StartDiscovery">> ELSE <<>>)
    \o (IF Succeeded(d, "StartDiscovery") THEN <<"StopDiscovery">> ELSE <<>>)
    \o (IF Succeeded(d, "AddMatch") THEN <<"RemoveMatch">> ELSE <<>>)
    \o <<"RemoveSignal", "close">>

C12_AtReturn ==
    \A d \in DiscIds :
        Returned(d) =>
            /\ SelectSeq(Ops(d), LAMBDA op : op /= "Update") = Expected(d)
            /\ \A op \in SetupOps :
                  Count(d, op) = 1 /\ ~Succeeded(d, op) =>
                      /\ derr[d] = "err:" \o op
                      /\ dlog[d] = <<>>
                      /\ deadline[d] < 0

C12_Step ==
    \A d \in DiscIds :
        pc'[d] = "loop" /\ pc[d] /= "loop" =>
            \A op \in SetupOps : Succeeded(d, op)

\* C12: when Discover returns, the operations it has executed are the setup
\* steps up to the first failure followed by StopDiscovery (only after a
\* successful StartDiscovery), RemoveMatch (only after a successful AddMatch),
\* RemoveSignal and close, in that order; after a failed setup step the result
\* is that step's error, no later setup step was issued, and the wait loop was
\* not entered (it is entered only after all three setup steps succeeded).
C12_CleanupReverseOrder == [](C12_AtReturn) /\ [][C12_Step]_vars

\* returned after a failed SetDiscoveryFilter: the rule removed, discovery
\* neither started nor stopped
C12_Witness ==
    /\ Returned("d1")
    /\ derr["d1"] = "err:SetDiscoveryFilter"
    /\ Ops("d1") = <<"Signal", "AddMatch", "SetDiscoveryFilter", "RemoveMatch",
                     "RemoveSignal", "close">>

C13_Always ==
    \A d \in DiscIds :
        /\ pc[d] = "loop" => derr[d] = "none" /\ rules[DiscoverRule] >= 1 /\ discovering
        /\ Returned(d) /\ derr[d] = "nil" =>
              dlog[d] /= <<>> /\ dlog[d][Len(dlog[d])] = "discovery finished"

C13_Step ==
    \A d \in DiscIds :
        /\ derr[d] /= "nil" /\ derr'[d] = "nil" =>
              pc[d] = "loop" /\ Offered(d) /\ IsDeviceAnnouncement(cur)
        /\ Receives(d) /\ ~IsDeviceAnnouncement(cur) =>
              /\ pc'[d] = "loop"
              /\ UNCHANGED <<derr, trace, rules, discovering, deadline, taps>>

\* C13: the result of Discover becomes nil only in a step of the wait loop
\* that receives an InterfacesAdded signal whose body decodes to an
\* interface-set holding the device interface. The receipt of any other signal
\* (another name, no device interface, a body that does not decode) leaves
\* Discover in the loop, issues no request and changes neither the rule nor
\* the discovery state; in the loop the rule is installed and discovery is on.
C13_OnlyDeviceAnnouncementEndsLoop == [](C13_Always) /\ [][C13_Step]_vars

\* still waiting after an announcement that does not decode or holds no
\* device, twice
C13_Witness ==
    /\ pc["d1"] = "loop"
    /\ dlog["d1"] = <<"skipping signal", "skipping signal">>
    /\ rules[DiscoverRule] = 1
    /\ discovering

\* C14: a handler invocation in progress ends only by the handler returning;
\* once cancellation has been requested the handler is not invoked again, also
\* not for signals queued in the channel, and the step that leaves the wait
\* loop returns nil.
C14_CooperativeCancel ==
    [][\A w \in WatchIds :
          /\ pc[w] = "handler" /\ pc'[w] /= "handler" => pc'[w] = "loop"
          /\ cancelled[w] => hlog'[w] = hlog[w]
          /\ pc[w] = "loop" /\ cancelled[w] /\ pc'[w] /= "loop" =>
                pc'[w] = "wRemove" /\ werr'[w] = "nil"]_vars

\* operations of one run of adapter Discover
RunOps == SetupOps \cup CleanupOps \cup {"Signal", "RemoveSignal", "close"}

C15_Always ==
    \A d \in DiscIds :
        /\ \A op \in RunOps \cup {"Update"} : Count(d, op) <= 1
        /\ Count(d, "Update") = 1 =>
              derr[d] = "nil" /\ trace[d][Len(trace[d])].op = "Update"
        /\ pc[d] = "returned" =>
              /\ cres[d].err = "noadapter" <=> derr[d] = "none" /\ cres[d].dev = NoDev
              /\ cres[d].err = "noadapter" => trace[d] = <<>> /\ AdapterPath \notin cache
              /\ derr[d] \notin {"none", "nil"} =>
                    /\ cres[d] = [dev |-> NoDev, err |-> derr[d]]
                    /\ Count(d, "Update") = 0
              /\ derr[d] = "nil" => CountOk(d, "Update") = 1

C15_Step ==
    cache' /= cache =>
        \E d \in DiscIds :
            /\ pc[d] = "wUpdate" /\ reply[d].st = "ok"
            /\ pc'[d] = "returned"
            /\ cache' = reply[d].objs

\* C15: a cache Discover call executes each operation of the discovery run,
\* and Update, at most once. Without an adapter in the cache it returns an
\* error having executed nothing. An error of adapter Discover is the error
\* returned, with no device and no Update. Update is issued only after adapter
\* Discover returned nil and is the call's last operation; the cache changes
\* only in the step that takes the successful refresh, the step that makes
\* the second lookup and returns.
C15_SlowPathOnce == [](C15_Always) /\ [][C15_Step]_vars

\* the timeout error of adapter Discover returned, the cache as it was
C15_Witness ==
    /\ pc["d1"] = "returned"
    /\ cres["d1"] = [dev |-> NoDev, err |-> "timeout"]
    /\ Count("d1", "StartDiscovery") = 1
    /\ Count("d1", "Update") = 0
    /\ cache = {AdapterPath}
    /\ remote /= cache

C16_Always ==
    \A d \in DiscIds :
        /\ pc[d] = "fatal" =>
              /\ trace[d][Len(trace[d])] = [op |-> "Update", ok |-> FALSE]
              /\ cres[d] = [dev |-> NoDev, err |-> "none"]
              /\ derr[d] = "nil"
              /\ SelectSeq(Ops(d), LAMBDA op : op /= "Update") = Expected(d)
              /\ Count(d, "StopDiscovery") = 1 /\ Count(d, "RemoveMatch") = 1
              /\ Detached(d) /\ d \in closed
        /\ pc[d] = "returned" /\ Count(d, "Update") = 1 => CountOk(d, "Update") = 1
        /\ cres[d].err /= "none" => pc[d] = "returned"

C16_Step == (\E d \in DiscIds : pc[d] = "fatal") => UNCHANGED vars

\* C16: after a failed cache refresh the call is in the fatal state with no
\* result, neither a device nor an error, and no step follows (the process has
\* ended); a call that returns after issuing Update had it succeed. When the
\* fatal state is entered the discovery run is over: StopDiscovery and
\* RemoveMatch were issued, the channel detached and closed.
C16_RefreshFailureIsFatal == [](C16_Always) /\ [][C16_Step]_vars

\* the refresh failed after a discovery that ended on the announcement of a
\* device
C16_Witness ==
    /\ pc["d1"] = "fatal"
    /\ dlog["d1"] /= <<>>
    /\ remote /= cache
    /\ rules[DiscoverRule] = 0
    /\ ~discovering

C17_Always == \A w \in WatchIds : Len(chan[w]) <= 10

C17_Step ==
    \A w \in WatchIds :
        /\ chan'[w] /= chan[w] =>
              \/ Offered(w) /\ chan'[w] = Append(chan[w], cur) /\ todo' = Tail(todo)
              \/ /\ pc[w] = "loop" /\ chan[w] /= <<>> /\ chan'[w] = Tail(chan[w])
                 /\ hlog'[w] = Append(hlog[w], Changed(Head(chan[w])))
        /\ hlog'[w] /= hlog[w] =>
              /\ chan[w] /= <<>> /\ chan'[w] = Tail(chan[w])
              /\ hlog'[w] = Append(hlog[w], Changed(Head(chan[w])))
        /\ Offered(w) /\ todo' /= todo => chan'[w] = Append(chan[w], cur)
        /\ Offered(w) /\ Len(chan[w]) = 10 =>
              /\ UNCHANGED <<cur, todo>>
              /\ \A p \in Procs : Replied(p) \/ reply'[p] = NoReply
              /\ Len(inq') >= Len(inq)
              /\ \A v \in WatchIds \ {w} : chan'[v] = chan[v] \/ chan'[v] = Tail(chan[v])

\* C17: the channel of a watch never holds more than 10 signals. A signal
\* enters it only at the tail, when the dispatcher delivers it, and leaves it
\* only at the head, to the handler: none is dropped, none overtakes another,
\* and the dispatcher moves past the channel only by putting the signal in.
\* While the channel holds 10 and the dispatcher has a signal for it, the
\* dispatcher does nothing else: it delivers no signal to any other channel,
\* hands over no reply and takes nothing from the connection.
C17_Backpressure == [](C17_Always) /\ [][C17_Step]_vars

\* the handler of the watch on /dev1 has not returned, its channel is full and
\* the dispatcher waits on it with the next signal; the second watch is in
\* its loop, registered, and has received nothing
C17_Witness ==
    /\ pc["w1"] = "handler"
    /\ Len(chan["w1"]) = WatchCap
    /\ cur /= NoSig
    /\ todo = <<"w1", "w2">>
    /\ pc["w2"] = "loop"
    /\ chan["w2"] = <<>>
    /\ hlog["w2"] = <<>>

\* the discovery run of d is between its StartDiscovery and its StopDiscovery
Running(d) == Succeeded(d, "StartDiscovery") /\ Count(d, "StopDiscovery") = 0

\* C18: no two Discover calls on the adapter are between StartDiscovery and
\* StopDiscovery at the same time, and discovery is on at the adapter while a
\* call is in its wait loop.
C18_OneRunPerAdapter ==
    /\ \A d, e \in DiscIds : Running(d) /\ Running(e) => d = e
    /\ \A d \in DiscIds : pc[d] = "loop" => discovering

\* p has left its loop and runs its deferred calls
Teardown(p) ==
    IF p \in DiscIds THEN pc[p] \in {"wStop", "wRemove", "detach"} ELSE pc[p] = "wRemove"

\* the dispatcher holds a signal for the channel of p that the channel cannot take
Jammed(p) == Offered(p) /\ (p \in DiscIds \/ Len(chan[p]) = WatchCap)

\* C19: the dispatcher has no signal to deliver to a channel that is closed,
\* and a call that has left its loop is never left with the dispatcher waiting
\* to send on its channel, a state in which its deferred calls cannot finish:
\* the replies to StopDiscovery and RemoveMatch and the lock RemoveSignal
\* needs are behind that send, and nobody receives from the channel any more.
C19_TeardownRaceFree ==
    \A p \in Procs :
        /\ p \in closed => Detached(p) /\ p \notin {todo[i] : i \in 1..Len(todo)}
        /\ Teardown(p) => ~Jammed(p)

\* C20: while Discover waits for the reply to AddMatch, SetDiscoveryFilter or
\* StartDiscovery, the dispatcher is never waiting to send a signal on its
\* channel, a state in which the reply cannot be handed over and Discover
\* neither enters its wait loop nor returns.
C20_SetupNeverDeadlocks ==
    \A d \in DiscIds :
        pc[d] \in {"wAddMatch", "wFilter", "wStart"} /\ ~Replied(d) => ~Offered(d)

====
